---- MODULE Spec2Model ----
(***************************************************************************)
(* Billing system for freelancers: invoice lifecycle and payment           *)
(* reconciliation.                                                         *)
(*                                                                         *)
(* The relational store (clients, projects, invoices, invoice_items,       *)
(* payments) is the state; every service method is one action that runs    *)
(* to completion (single user, synchronous).  Each service method is       *)
(* modelled from the first statement of its body, as the interpreter       *)
(* executes it: a keyword argument the dataclass does not declare is a     *)
(* TypeError, an enum member or a repository method that is not defined    *)
(* is an AttributeError, and the totals of a loaded invoice are the ones   *)
(* __post_init__ computes.                                                 *)
(*                                                                         *)
(* Money is counted in whole currency units; the rates used are multiples  *)
(* of 50, for which subtotal * 0.18 is an exact number of units.           *)
(***************************************************************************)
EXTENDS Integers, Sequences, FiniteSets, TLC

VARIABLES
    clients,        \* table clients:        id -> row
    projects,       \* table projects:       id -> row
    invoices,       \* table invoices:       sequence of rows, id = index
    invoice_items,  \* table invoice_items:  sequence of rows, id = index
    payments,       \* table payments:       id -> row
    next_id,        \* AUTOINCREMENT counters of clients, projects, payments
    now,            \* the wall clock: a tick is a day, calls between two ticks
                    \* fall into one second
    last,           \* the last service call: method, arguments, outcome
    obj,            \* an Invoice or Payment object in memory (model layer)
    obj_last,       \* the last method applied to obj
    report          \* what the reporting operation just called returned

vars == <<clients, projects, invoices, invoice_items, payments, next_id, now,
          last, obj, obj_last, report>>

store == <<clients, projects, invoices, invoice_items, payments, next_id>>

----------------------------------------------------------------------------
(* Bounds of the model *)

MaxClients == 2
MaxProjects == 1
MaxInvoices == 2
MaxClock == 1
MaxHours == 1
MaxItems == 2
MaxPayments == 1

(* Inputs *)

Rates == {100}
Emails == {"a@x.io", " A@x.io "}
TransactionIds == {"None", " T1 "}

----------------------------------------------------------------------------
(* Python values *)

\* None, where an object is expected and where a number is expected
NoneVal == [none |-> TRUE]
NoNumber == -1
OK == "ok"

\* None where a string is expected; "" is the empty string
NoneStr == "None"

\* str.strip() on the strings the inputs are drawn from
Strip(s) == IF s \in {"", " "} THEN "" ELSE s

StripTxn(s) == IF s = " T1 " THEN "T1" ELSE Strip(s)

\* truth value of an optional string: None and "" are false
TruthyStr(s) == s # NoneStr /\ s # ""

\* data.get(key, default) on a row of the store
Get(data, key, default) == IF key \in DOMAIN data THEN data[key] ELSE default

Ok(v) == [err |-> OK, val |-> v]
Raise(e) == [err |-> e, val |-> NoneVal]

----------------------------------------------------------------------------
(* config/settings.py *)

TaxRatePct == 18

\* days in a month of the clock
DaysPerMonth == 30

\* services/invoice_service.py: create_invoice(..., due_days: int = 30)
DefaultDueDays == 30

tax_rate(amount) == (amount * TaxRatePct) \div 100

----------------------------------------------------------------------------
(* models/invoice.py *)

InvoiceStatus ==
    [DRAFT |-> "draft", SENT |-> "sent", PAID |-> "paid",
     OVERDUE |-> "overdue", CANCELLED |-> "cancelled"]

InvoiceStatusValues == {InvoiceStatus[m] : m \in DOMAIN InvoiceStatus}

\* InvoiceItem taking the rate for the amount, the quantity left out
InvoiceItem_rate_only(description, quantity, rate) ==
    [description |-> description, quantity |-> quantity, rate |-> rate,
     amount |-> rate]

InvoiceItem(description, quantity, rate) ==
    [description |-> description, quantity |-> quantity, rate |-> rate,
     amount |-> quantity * rate]

RECURSIVE SumAmounts(_)
SumAmounts(items) ==
    IF items = <<>> THEN 0
    ELSE SumAmounts(SubSeq(items, 1, Len(items) - 1)) + items[Len(items)].amount

\* calculate_totals adding to the subtotal it finds instead of replacing it
calculate_totals_accumulating(inv) ==
    LET subtotal == inv.subtotal + SumAmounts(inv.items)
        tax_amount == tax_rate(subtotal)
    IN  [inv EXCEPT !.subtotal = subtotal,
                    !.tax_amount = tax_amount,
                    !.total_amount = subtotal + tax_amount]

calculate_totals(inv) ==
    LET subtotal == SumAmounts(inv.items)
        tax_amount == tax_rate(subtotal)
    IN  [inv EXCEPT !.subtotal = subtotal,
                    !.tax_amount = tax_amount,
                    !.total_amount = subtotal + tax_amount]

\* "INV-<timestamp>", the timestamp to the second
generate_invoice_number(clock) == <<"INV", clock>>

\* date.today(): the clock counts days, and two calls at the same value of
\* the clock fall into the same second
date_today(clock) == clock

\* Invoice(...): the dataclass constructor (due_date defaults to today)
\* followed by __post_init__
Invoice(f, clock) ==
    LET g == f @@ [issue_date |-> date_today(clock), due_date |-> date_today(clock)]
        numbered == IF g.invoice_number = <<>>
                    THEN [g EXCEPT !.invoice_number = generate_invoice_number(clock)]
                    ELSE g
    IN  IF f.client_id <= 0 THEN Raise("ValidationError")
        ELSE Ok(calculate_totals(numbered))

Invoice_from_dict(data, clock) ==
    IF data.status \notin InvoiceStatusValues THEN Raise("ValueError")
    ELSE Invoice([id |-> data.id,
                  invoice_number |-> data.invoice_number,
                  client_id |-> data.client_id,
                  project_id |-> data.project_id,
                  items |-> <<>>,
                  subtotal |-> data.subtotal,
                  tax_amount |-> data.tax_amount,
                  total_amount |-> data.total_amount,
                  status |-> data.status,
                  issue_date |-> Get(data, "issue_date", date_today(clock)),
                  due_date |-> Get(data, "due_date", date_today(clock))], clock)

\* add_item appending the item without recomputing the totals
add_item_stale(inv, description, quantity, rate) ==
    IF Strip(description) = "" THEN Raise("ValidationError")
    ELSE IF quantity <= 0 THEN Raise("ValidationError")
    ELSE IF rate < 0 THEN Raise("ValidationError")
    ELSE Ok([inv EXCEPT !.items = Append(@, InvoiceItem(description, quantity, rate))])

add_item(inv, description, quantity, rate) ==
    IF Strip(description) = "" THEN Raise("ValidationError")
    ELSE IF quantity <= 0 THEN Raise("ValidationError")
    ELSE IF rate < 0 THEN Raise("ValidationError")
    ELSE Ok(calculate_totals(
            [inv EXCEPT !.items = Append(@, InvoiceItem(description, quantity, rate))]))

mark_as_paid(inv) == [inv EXCEPT !.status = InvoiceStatus.PAID]

\* is_overdue looking at the date alone
is_overdue_by_date_only(inv, clock) == inv.due_date < date_today(clock)

is_overdue(inv, clock) ==
    /\ inv.status \notin {InvoiceStatus.PAID, InvoiceStatus.CANCELLED}
    /\ inv.due_date < date_today(clock)

----------------------------------------------------------------------------
(* models/client.py, models/project.py *)

HasAt(email) == email \in {"a@x.io", " A@x.io ", "b@x.io"}

Lower(s) == IF s = "A@x.io" THEN "a@x.io" ELSE s

StripEmail(s) == IF s = " A@x.io " THEN "A@x.io" ELSE Strip(s)

\* truth value of an optional number: None and 0 are false
Truthy(x) == x # NoNumber /\ x # 0

\* Client(...): constructor and __post_init__
Client(f) ==
    IF Strip(f.name) = "" THEN Raise("ValidationError")
    ELSE IF StripEmail(f.email) = "" THEN Raise("ValidationError")
    ELSE IF ~HasAt(f.email) THEN Raise("ValidationError")
    ELSE Ok(f)

ProjectStatus ==
    [ACTIVE |-> "active", COMPLETED |-> "completed", ON_HOLD |-> "on_hold",
     CANCELLED |-> "cancelled"]

\* Project(...): constructor and __post_init__
Project(f) ==
    IF Strip(f.name) = "" THEN Raise("ValidationError")
    ELSE IF f.client_id <= 0 THEN Raise("ValidationError")
    ELSE IF ~Truthy(f.hourly_rate) /\ ~Truthy(f.fixed_rate) THEN Raise("ValidationError")
    ELSE IF Truthy(f.hourly_rate) /\ f.hourly_rate < 0 THEN Raise("ValidationError")
    ELSE IF Truthy(f.fixed_rate) /\ f.fixed_rate < 0 THEN Raise("ValidationError")
    ELSE Ok(f)

calculate_amount(project) ==
    IF Truthy(project.fixed_rate) THEN project.fixed_rate
    ELSE IF Truthy(project.hourly_rate) THEN project.hourly_rate * project.hours_worked
    ELSE 0

----------------------------------------------------------------------------
(* repositories: rows of the store and the objects loaded from them *)

Insert(table, id, row) == table @@ (id :> row)

\* BaseRepository.find_by_id on clients / projects: None, or the model
\* object built from the row (whose constructor may raise)
client_find_by_id(id) ==
    IF id \notin DOMAIN clients THEN Ok(NoneVal) ELSE Client(clients[id])

client_find_by_email(email) ==
    LET hit == {i \in DOMAIN clients : clients[i].email = email}
    IN  IF hit = {} THEN Ok(NoneVal)
        ELSE Client(clients[CHOOSE i \in hit : TRUE])

project_find_by_id(id) ==
    IF id \notin DOMAIN projects THEN Ok(NoneVal) ELSE Project(projects[id])

\* InvoiceRepository._load_invoice_items: the rows of the invoice, by id,
\* each rebuilt as an InvoiceItem
RECURSIVE load_invoice_items(_, _)
load_invoice_items(rows, invoice_id) ==
    IF rows = <<>> THEN <<>>
    ELSE LET r == rows[Len(rows)]
             before == load_invoice_items(SubSeq(rows, 1, Len(rows) - 1), invoice_id)
         IN  IF r.invoice_id = invoice_id
             THEN Append(before, InvoiceItem(r.description, r.quantity, r.rate))
             ELSE before

\* InvoiceRepository._row_to_model: from_dict, then the items are assigned
invoice_row_to_model(id) ==
    LET built == Invoice_from_dict([id |-> id] @@ invoices[id], now)
    IN  IF built.err # OK THEN built
        ELSE Ok([built.val EXCEPT !.items = load_invoice_items(invoice_items, id)])

invoice_find_by_id(id) ==
    IF id \notin DOMAIN invoices THEN Ok(NoneVal) ELSE invoice_row_to_model(id)

ItemRows(inv, id) ==
    [k \in 1..Len(inv.items) |->
        [invoice_id |-> id,
         description |-> inv.items[k].description,
         quantity |-> inv.items[k].quantity,
         rate |-> inv.items[k].rate,
         amount |-> inv.items[k].amount]]

InvoiceRow(inv) ==
    [invoice_number |-> inv.invoice_number,
     client_id |-> inv.client_id,
     project_id |-> inv.project_id,
     subtotal |-> inv.subtotal,
     tax_amount |-> inv.tax_amount,
     total_amount |-> inv.total_amount,
     status |-> inv.status,
     issue_date |-> inv.issue_date,
     due_date |-> inv.due_date]

\* InvoiceRepository.find_overdue: the ids of the rows it selects
find_overdue(clock) ==
    {i \in DOMAIN invoices :
        /\ invoices[i].due_date < date_today(clock)
        /\ invoices[i].status \notin {"paid", "cancelled"}}

\* the UNIQUE constraint on invoices.invoice_number
InvoiceNumberTaken(number) ==
    \E i \in DOMAIN invoices : invoices[i].invoice_number = number

\* the INSERT statements of InvoiceRepository.create for the items, in order,
\* on the tables of the open connection: a NULL description violates NOT NULL
RECURSIVE insert_items(_, _, _)
insert_items(table, items, invoice_id) ==
    IF items = <<>> THEN [err |-> OK, table |-> table]
    ELSE IF Head(items).description = NoneStr
         THEN [err |-> "DatabaseError", table |-> table]
    ELSE insert_items(Append(table, [invoice_id |-> invoice_id,
                                     description |-> Head(items).description,
                                     quantity |-> Head(items).quantity,
                                     rate |-> Head(items).rate,
                                     amount |-> Head(items).amount]),
                      Tail(items), invoice_id)

\* InvoiceRepository.create up to its commit: what the connection holds, and
\* whether commit was reached
invoice_repository_create(inv) ==
    LET taken == InvoiceNumberTaken(inv.invoice_number)
        id == Len(invoices) + 1
        rows == insert_items(invoice_items, inv.items, id)
    IN  IF taken
        THEN [err |-> "DatabaseError", committed |-> FALSE,
              pending |-> <<invoices, invoice_items>>]
        ELSE [err |-> rows.err, committed |-> rows.err = OK,
              pending |-> <<Append(invoices, InvoiceRow(inv)), rows.table>>]

\* a connection that commits every statement as it is executed
connection_close_autocommit(committed, before, pending) == pending

\* DatabaseManager.get_connection: the connection is closed on the way out,
\* and what was not committed is dropped
connection_close(committed, before, pending) ==
    IF committed THEN pending ELSE before

----------------------------------------------------------------------------
(* the call record *)

Call(op, err, id, amount) == [op |-> op, err |-> err, id |-> id, amount |-> amount]

\* a service call leaves the objects of the model layer, and the report that
\* was returned before it is no longer at hand
ModelUnchanged == UNCHANGED <<obj, obj_last>> /\ report' = NoneVal

----------------------------------------------------------------------------
(* services/client_service.py *)

\* create_client over a clients table without the UNIQUE constraint on email
create_client_result_no_unique(name, email) ==
    LET existing == client_find_by_email(email)
        client == Client([name |-> Strip(name), email |-> Lower(StripEmail(email))])
    IN  IF existing.err # OK THEN existing.err
        ELSE IF existing.val # NoneVal THEN "ValidationError"
        ELSE IF client.err # OK THEN client.err
        ELSE OK

create_client_result(name, email) ==
    LET existing == client_find_by_email(email)
        client == Client([name |-> Strip(name), email |-> Lower(StripEmail(email))])
    IN  IF existing.err # OK THEN existing.err
        ELSE IF existing.val # NoneVal THEN "ValidationError"
        ELSE IF client.err # OK THEN client.err
        ELSE IF \E i \in DOMAIN clients : clients[i].email = client.val.email
             THEN "DatabaseError"
        ELSE OK

CreateClient(name, email) ==
    /\ next_id.clients <= MaxClients
    /\ LET err == create_client_result(name, email)
       IN  /\ last' = Call("create_client", err, next_id.clients, 0)
           /\ IF err = OK
              THEN /\ clients' = Insert(clients, next_id.clients,
                                        [name |-> Strip(name),
                                         email |-> Lower(StripEmail(email))])
                   /\ next_id' = [next_id EXCEPT !.clients = @ + 1]
              ELSE UNCHANGED <<clients, next_id>>
    /\ UNCHANGED <<projects, invoices, invoice_items, payments, now>>
    /\ ModelUnchanged

\* update_client: the fields given are assigned to the loaded client, which is
\* then written back; the constructor does not run again
update_client_result(client_id, name, email) ==
    LET client == client_find_by_id(client_id)
        stored_as == Lower(StripEmail(email))
        existing == client_find_by_email(stored_as)
        hit == {i \in DOMAIN clients : clients[i].email = stored_as}
        named == IF name # NoneStr
                 THEN [client.val EXCEPT !.name = Strip(name)]
                 ELSE client.val
        mailed == IF email # NoneStr
                  THEN [named EXCEPT !.email = stored_as]
                  ELSE named
    IN  IF client.err # OK THEN client
        ELSE IF client.val = NoneVal THEN Raise("ClientNotFoundError")
        ELSE IF email # NoneStr /\ existing.err # OK THEN existing
        ELSE IF email # NoneStr /\ hit # {} /\ (CHOOSE i \in hit : TRUE) # client_id
             THEN Raise("ValidationError")
        ELSE IF \E i \in DOMAIN clients : i # client_id /\ clients[i].email = mailed.email
             THEN Raise("DatabaseError")
        ELSE Ok(mailed)

UpdateClient(client_id, name, email) ==
    /\ LET res == update_client_result(client_id, name, email)
       IN  /\ last' = Call("update_client", res.err, client_id, 0)
           /\ IF res.err = OK
              THEN clients' = [clients EXCEPT ![client_id] = res.val]
              ELSE UNCHANGED clients
    /\ UNCHANGED <<projects, invoices, invoice_items, payments, next_id, now>>
    /\ ModelUnchanged

delete_client_result(client_id) ==
    LET client == client_find_by_id(client_id)
    IN  IF client.err # OK THEN client.err
        ELSE IF client.val = NoneVal THEN "ClientNotFoundError"
        ELSE OK

\* delete_client: the row is deleted, whatever refers to it stays
DeleteClient(client_id) ==
    /\ LET err == delete_client_result(client_id)
       IN  /\ last' = Call("delete_client", err, client_id, 0)
           /\ IF err = OK
              THEN clients' = [i \in DOMAIN clients \ {client_id} |-> clients[i]]
              ELSE UNCHANGED clients
    /\ UNCHANGED <<projects, invoices, invoice_items, payments, next_id, now>>
    /\ ModelUnchanged

----------------------------------------------------------------------------
(* services/project_service.py *)

create_project_result(client_id, name, hourly_rate, fixed_rate) ==
    LET client == client_find_by_id(client_id)
        project == Project([client_id |-> client_id, name |-> Strip(name),
                            hourly_rate |-> hourly_rate, fixed_rate |-> fixed_rate,
                            hours_worked |-> 0, status |-> ProjectStatus.ACTIVE])
    IN  IF client.err # OK THEN client
        ELSE IF client.val = NoneVal THEN Raise("ClientNotFoundError")
        ELSE IF ~Truthy(hourly_rate) /\ ~Truthy(fixed_rate) THEN Raise("ValidationError")
        ELSE IF Truthy(hourly_rate) /\ Truthy(fixed_rate) THEN Raise("ValidationError")
        ELSE IF Truthy(hourly_rate) /\ hourly_rate <= 0 THEN Raise("ValidationError")
        ELSE IF Truthy(fixed_rate) /\ fixed_rate <= 0 THEN Raise("ValidationError")
        ELSE project

CreateProject(client_id, name, hourly_rate, fixed_rate) ==
    /\ next_id.projects <= MaxProjects
    /\ LET res == create_project_result(client_id, name, hourly_rate, fixed_rate)
       IN  /\ last' = Call("create_project", res.err, next_id.projects, 0)
           /\ IF res.err = OK
              THEN /\ projects' = Insert(projects, next_id.projects, res.val)
                   /\ next_id' = [next_id EXCEPT !.projects = @ + 1]
              ELSE UNCHANGED <<projects, next_id>>
    /\ UNCHANGED <<clients, invoices, invoice_items, payments, now>>
    /\ ModelUnchanged

\* update_project: the fields given are assigned to the loaded project, which
\* is then written back; the constructor does not run again
update_project_result(project_id, name, hourly_rate, fixed_rate) ==
    LET project == project_find_by_id(project_id)
        named == IF name # NoneStr
                 THEN [project.val EXCEPT !.name = Strip(name)]
                 ELSE project.val
        hourly == IF hourly_rate # NoNumber
                  THEN [named EXCEPT !.hourly_rate = hourly_rate,
                                     !.fixed_rate = NoNumber]
                  ELSE named
        fixed == IF fixed_rate # NoNumber
                 THEN [hourly EXCEPT !.fixed_rate = fixed_rate,
                                     !.hourly_rate = NoNumber]
                 ELSE hourly
    IN  IF project.err # OK THEN project
        ELSE IF project.val = NoneVal THEN Raise("ProjectNotFoundError")
        ELSE IF hourly_rate # NoNumber /\ hourly_rate <= 0 THEN Raise("ValidationError")
        ELSE IF fixed_rate # NoNumber /\ fixed_rate <= 0 THEN Raise("ValidationError")
        ELSE Ok(fixed)

UpdateProject(project_id, name, hourly_rate, fixed_rate) ==
    /\ LET res == update_project_result(project_id, name, hourly_rate, fixed_rate)
       IN  /\ last' = Call("update_project", res.err, project_id, 0)
           /\ IF res.err = OK
              THEN projects' = [projects EXCEPT ![project_id] = res.val]
              ELSE UNCHANGED projects
    /\ UNCHANGED <<clients, invoices, invoice_items, payments, next_id, now>>
    /\ ModelUnchanged

\* update_project(project_id, status=...)
update_project_status_result(project_id, status) ==
    LET updated == update_project_result(project_id, NoneStr, NoNumber, NoNumber)
    IN  IF updated.err # OK THEN updated
        ELSE Ok([updated.val EXCEPT !.status = status])

\* complete_project, pause_project, resume_project: the loaded project gets
\* its new status and is written back
complete_project_result(project_id) ==
    LET project == project_find_by_id(project_id)
    IN  IF project.err # OK THEN project
        ELSE IF project.val = NoneVal THEN Raise("ProjectNotFoundError")
        ELSE IF project.val.status = ProjectStatus.COMPLETED THEN Raise("ValidationError")
        ELSE Ok([project.val EXCEPT !.status = ProjectStatus.COMPLETED])

pause_project_result(project_id) ==
    LET project == project_find_by_id(project_id)
    IN  IF project.err # OK THEN project
        ELSE IF project.val = NoneVal THEN Raise("ProjectNotFoundError")
        ELSE IF project.val.status # ProjectStatus.ACTIVE THEN Raise("ValidationError")
        ELSE Ok([project.val EXCEPT !.status = ProjectStatus.ON_HOLD])

resume_project_result(project_id) ==
    LET project == project_find_by_id(project_id)
    IN  IF project.err # OK THEN project
        ELSE IF project.val = NoneVal THEN Raise("ProjectNotFoundError")
        ELSE IF project.val.status # ProjectStatus.ON_HOLD THEN Raise("ValidationError")
        ELSE Ok([project.val EXCEPT !.status = ProjectStatus.ACTIVE])

\* ProjectRepository.update of the project a service method returns
ProjectUpdate(op, project_id, res) ==
    /\ last' = Call(op, res.err, project_id, 0)
    /\ IF res.err = OK
       THEN projects' = [projects EXCEPT ![project_id] = res.val]
       ELSE UNCHANGED projects
    /\ UNCHANGED <<clients, invoices, invoice_items, payments, next_id, now>>
    /\ ModelUnchanged

UpdateProjectStatus(project_id, status) ==
    ProjectUpdate("update_project", project_id,
                  update_project_status_result(project_id, status))

CompleteProject(project_id) ==
    ProjectUpdate("complete_project", project_id, complete_project_result(project_id))

PauseProject(project_id) ==
    ProjectUpdate("pause_project", project_id, pause_project_result(project_id))

ResumeProject(project_id) ==
    ProjectUpdate("resume_project", project_id, resume_project_result(project_id))

\* add_hours_to_project without the test of the hours
add_hours_result_any_hours(project_id, hours) ==
    LET project == project_find_by_id(project_id)
    IN  IF project.err # OK THEN project.err
        ELSE IF project.val = NoneVal THEN "ProjectNotFoundError"
        ELSE IF ~Truthy(project.val.hourly_rate) THEN "ValidationError"
        ELSE IF project.val.status # ProjectStatus.ACTIVE THEN "ValidationError"
        ELSE OK

add_hours_result(project_id, hours) ==
    LET project == project_find_by_id(project_id)
    IN  IF project.err # OK THEN project.err
        ELSE IF project.val = NoneVal THEN "ProjectNotFoundError"
        ELSE IF ~Truthy(project.val.hourly_rate) THEN "ValidationError"
        ELSE IF hours <= 0 THEN "ValidationError"
        ELSE IF project.val.status # ProjectStatus.ACTIVE THEN "ValidationError"
        ELSE OK

AddHoursToProject(project_id, hours) ==
    /\ project_id \in DOMAIN projects => projects[project_id].hours_worked + hours <= MaxHours
    /\ LET err == add_hours_result(project_id, hours)
       IN  /\ last' = Call("add_hours_to_project", err, project_id, 0)
           /\ IF err = OK
              THEN projects' = [projects EXCEPT ![project_id].hours_worked = @ + hours]
              ELSE UNCHANGED projects
    /\ UNCHANGED <<clients, invoices, invoice_items, payments, next_id, now>>
    /\ ModelUnchanged

----------------------------------------------------------------------------
(* services/invoice_service.py *)

update_status(table, invoice_id, status) ==
    [i \in DOMAIN table |->
        IF i = invoice_id THEN [table[i] EXCEPT !.status = status] ELSE table[i]]

\* InvoiceRepository.update_status called on its own, with any member of
\* InvoiceStatus
RepoUpdateStatus(invoice_id, status) ==
    /\ invoices' = update_status(invoices, invoice_id, status)
    /\ last' = Call("update_status", OK, invoice_id, 0)
    /\ UNCHANGED <<clients, projects, invoice_items, payments, next_id, now>>
    /\ ModelUnchanged

\* create_invoice over an invoices table without the UNIQUE constraint on
\* invoice_number
create_invoice_result_no_unique(client_id, project_id, due_days) ==
    LET client == client_find_by_id(client_id)
        project == IF Truthy(project_id) THEN project_find_by_id(project_id)
                   ELSE Ok(NoneVal)
        invoice == Invoice([id |-> NoNumber, invoice_number |-> <<>>,
                            client_id |-> client_id, project_id |-> project_id,
                            items |-> <<>>, subtotal |-> 0, tax_amount |-> 0,
                            total_amount |-> 0, status |-> InvoiceStatus.DRAFT,
                            due_date |-> date_today(now) + due_days], now)
        amount == calculate_amount(project.val)
        billed == IF project.val # NoneVal /\ amount > 0
                  THEN add_item(invoice.val, "Work on project", 1, amount)
                  ELSE invoice
    IN  IF client.err # OK THEN client
        ELSE IF client.val = NoneVal THEN Raise("ClientNotFoundError")
        ELSE IF project.err # OK THEN project
        ELSE IF Truthy(project_id) /\ project.val = NoneVal THEN Raise("ValidationError")
        ELSE IF Truthy(project_id) /\ project.val.client_id # client_id
             THEN Raise("ValidationError")
        ELSE IF invoice.err # OK THEN invoice
        ELSE IF billed.err # OK THEN billed
        ELSE billed

create_invoice_result(client_id, project_id, due_days) ==
    LET client == client_find_by_id(client_id)
        project == IF Truthy(project_id) THEN project_find_by_id(project_id)
                   ELSE Ok(NoneVal)
        invoice == Invoice([id |-> NoNumber, invoice_number |-> <<>>,
                            client_id |-> client_id, project_id |-> project_id,
                            items |-> <<>>, subtotal |-> 0, tax_amount |-> 0,
                            total_amount |-> 0, status |-> InvoiceStatus.DRAFT,
                            due_date |-> date_today(now) + due_days], now)
        amount == calculate_amount(project.val)
        billed == IF project.val # NoneVal /\ amount > 0
                  THEN add_item(invoice.val, "Work on project", 1, amount)
                  ELSE invoice
    IN  IF client.err # OK THEN client
        ELSE IF client.val = NoneVal THEN Raise("ClientNotFoundError")
        ELSE IF project.err # OK THEN project
        ELSE IF Truthy(project_id) /\ project.val = NoneVal THEN Raise("ValidationError")
        ELSE IF Truthy(project_id) /\ project.val.client_id # client_id
             THEN Raise("ValidationError")
        ELSE IF invoice.err # OK THEN invoice
        ELSE IF billed.err # OK THEN billed
        ELSE IF InvoiceNumberTaken(billed.val.invoice_number) THEN Raise("DatabaseError")
        ELSE billed

CreateInvoice(client_id, project_id, due_days) ==
    /\ Len(invoices) < MaxInvoices
    /\ LET res == create_invoice_result(client_id, project_id, due_days)
           id == Len(invoices) + 1
       IN  /\ last' = Call("create_invoice", res.err, id, 0)
           /\ IF res.err = OK
              THEN /\ invoices' = Append(invoices, InvoiceRow(res.val))
                   /\ invoice_items' = invoice_items \o ItemRows(res.val, id)
              ELSE UNCHANGED <<invoices, invoice_items>>
    /\ UNCHANGED <<clients, projects, payments, next_id, now>>
    /\ ModelUnchanged

\* InvoiceRepository defines create, update_status, find_by_client,
\* find_overdue and get_monthly_revenue; BaseRepository find_by_id, find_all,
\* delete and count
InvoiceRepositoryMethods ==
    {"create", "update_status", "find_by_client", "find_overdue",
     "get_monthly_revenue", "find_by_id", "find_all", "delete", "count"}

add_invoice_item_result(invoice_id, description, quantity, rate) ==
    LET invoice == invoice_find_by_id(invoice_id)
        added == add_item(invoice.val, description, quantity, rate)
    IN  IF invoice.err # OK THEN invoice
        ELSE IF invoice.val = NoneVal THEN Raise("InvoiceNotFoundError")
        ELSE IF invoice.val.status # InvoiceStatus.DRAFT THEN Raise("ValidationError")
        ELSE IF added.err # OK THEN added
        ELSE IF "update" \notin InvoiceRepositoryMethods THEN Raise("AttributeError")
        ELSE added

AddInvoiceItem(invoice_id, description, quantity, rate) ==
    /\ Len(load_invoice_items(invoice_items, invoice_id)) < MaxItems
    /\ LET res == add_invoice_item_result(invoice_id, description, quantity, rate)
       IN  /\ last' = Call("add_invoice_item", res.err, invoice_id, 0)
           /\ IF res.err = OK
              THEN /\ invoices' =
                        [invoices EXCEPT ![invoice_id] = InvoiceRow(res.val)]
                   /\ invoice_items' = invoice_items \o
                        SubSeq(ItemRows(res.val, invoice_id),
                               Len(res.val.items), Len(res.val.items))
              ELSE UNCHANGED <<invoices, invoice_items>>
    /\ UNCHANGED <<clients, projects, payments, next_id, now>>
    /\ ModelUnchanged

mark_invoice_paid_result(invoice_id) ==
    LET invoice == invoice_find_by_id(invoice_id)
    IN  IF invoice.err # OK THEN invoice.err
        ELSE IF invoice.val = NoneVal THEN "InvoiceNotFoundError"
        ELSE IF invoice.val.status = InvoiceStatus.PAID THEN "ValidationError"
        ELSE OK

MarkInvoicePaid(invoice_id) ==
    /\ LET err == mark_invoice_paid_result(invoice_id)
       IN  /\ last' = Call("mark_invoice_paid", err, invoice_id, 0)
           /\ IF err = OK
              THEN invoices' = update_status(invoices, invoice_id, InvoiceStatus.PAID)
              ELSE UNCHANGED invoices
    /\ UNCHANGED <<clients, projects, invoice_items, payments, next_id, now>>
    /\ ModelUnchanged

\* send_invoice without the test of the status
send_invoice_result_any_status(invoice_id) ==
    LET invoice == invoice_find_by_id(invoice_id)
    IN  IF invoice.err # OK THEN invoice.err
        ELSE IF invoice.val = NoneVal THEN "InvoiceNotFoundError"
        ELSE OK

send_invoice_result(invoice_id) ==
    LET invoice == invoice_find_by_id(invoice_id)
    IN  IF invoice.err # OK THEN invoice.err
        ELSE IF invoice.val = NoneVal THEN "InvoiceNotFoundError"
        ELSE IF invoice.val.status \notin {InvoiceStatus.DRAFT, InvoiceStatus.SENT}
             THEN "ValidationError"
        ELSE OK

SendInvoice(invoice_id) ==
    /\ LET err == send_invoice_result(invoice_id)
       IN  /\ last' = Call("send_invoice", err, invoice_id, 0)
           /\ IF err = OK
              THEN invoices' = update_status(invoices, invoice_id, InvoiceStatus.SENT)
              ELSE UNCHANGED invoices
    /\ UNCHANGED <<clients, projects, invoice_items, payments, next_id, now>>
    /\ ModelUnchanged

----------------------------------------------------------------------------
(* services/report_service.py, InvoiceService.get_invoice_summary and       *)
(* cli/report_menu.py                                                       *)

\* sum(f[i] for i in ids)
RECURSIVE SumOver(_, _)
SumOver(f, ids) ==
    IF ids = {} THEN 0
    ELSE LET i == CHOOSE j \in ids : TRUE
         IN  f[i] + SumOver(f, ids \ {i})

\* BaseRepository.find_all on invoices / clients: every row is turned into
\* its model object, and the first constructor that raises ends the call
invoice_find_all ==
    LET bad == {i \in DOMAIN invoices : invoice_find_by_id(i).err # OK}
    IN  IF bad # {} THEN Raise(invoice_find_by_id(CHOOSE i \in bad : TRUE).err)
        ELSE Ok([i \in DOMAIN invoices |-> invoice_find_by_id(i).val])

client_find_all ==
    LET bad == {i \in DOMAIN clients : client_find_by_id(i).err # OK}
    IN  IF bad # {} THEN Raise(client_find_by_id(CHOOSE i \in bad : TRUE).err)
        ELSE Ok([i \in DOMAIN clients |-> client_find_by_id(i).val])

Unpaid(inv) == inv.status \notin {InvoiceStatus.PAID, InvoiceStatus.CANCELLED}

TotalAmounts(loaded) == [i \in DOMAIN loaded |-> loaded[i].total_amount]

\* the month a day falls into
MonthOf(day) == day \div DaysPerMonth

\* InvoiceRepository.get_monthly_revenue: SUM(total_amount) over the rows
get_monthly_revenue(month) ==
    SumOver([i \in DOMAIN invoices |-> invoices[i].total_amount],
            {i \in DOMAIN invoices : /\ invoices[i].status = "paid"
                                      /\ MonthOf(invoices[i].issue_date) = month})

get_monthly_report(month) ==
    LET all == invoice_find_all
        ids == {i \in DOMAIN all.val : MonthOf(all.val[i].issue_date) = month}
        amounts == TotalAmounts(all.val)
        paid == {i \in ids : all.val[i].status = InvoiceStatus.PAID}
    IN  IF all.err # OK THEN all
        ELSE Ok([month |-> month,
                 total_revenue |-> get_monthly_revenue(month),
                 total_invoices |-> Cardinality(ids),
                 paid_invoices |-> Cardinality(paid),
                 pending_invoices |-> Cardinality(ids) - Cardinality(paid),
                 total_amount |-> SumOver(amounts, ids),
                 pending_amount |-> SumOver(amounts, ids \ paid)])

\* the entry of one client in get_client_revenue_report
client_report(all, c) ==
    LET ids == {i \in DOMAIN all : all[i].client_id = c}
        amounts == TotalAmounts(all)
        paid_amount == SumOver(amounts, {i \in ids : all[i].status = InvoiceStatus.PAID})
        pending_amount == SumOver(amounts, {i \in ids : Unpaid(all[i])})
    IN  [client_id |-> c,
         total_invoices |-> Cardinality(ids),
         total_amount |-> paid_amount + pending_amount,
         paid_amount |-> paid_amount,
         pending_amount |-> pending_amount]

get_client_revenue_report ==
    LET found == client_find_all
        all == invoice_find_all
        listed == {c \in DOMAIN found.val : client_report(all.val, c).total_amount > 0}
    IN  IF found.err # OK THEN found
        ELSE IF found.val # <<>> /\ all.err # OK THEN all
        ELSE Ok([c \in listed |-> client_report(all.val, c)])

\* get_outstanding_payments_report: the unpaid invoices are grouped by the
\* client that find_by_id returns for them
get_outstanding_payments_report ==
    LET all == invoice_find_all
        amounts == TotalAmounts(all.val)
        unpaid == {i \in DOMAIN all.val : Unpaid(all.val[i])}
        overdue == find_overdue(now)
        owners == [i \in unpaid |-> client_find_by_id(all.val[i].client_id)]
        bad == {i \in unpaid : owners[i].err # OK}
        grouped == {i \in unpaid : owners[i].val # NoneVal}
        keys == {all.val[i].client_id : i \in grouped}
        of(c) == {i \in grouped : all.val[i].client_id = c}
    IN  IF all.err # OK THEN all
        ELSE IF bad # {} THEN Raise(owners[CHOOSE i \in bad : TRUE].err)
        ELSE Ok([total_outstanding |-> SumOver(amounts, unpaid),
                 overdue_amount |-> SumOver(amounts, overdue),
                 total_unpaid_invoices |-> Cardinality(unpaid),
                 overdue_invoices_count |-> Cardinality(overdue),
                 client_breakdown |->
                    [c \in keys |->
                        [total_amount |-> SumOver(amounts, of(c)),
                         overdue_amount |->
                            SumOver(amounts, {i \in of(c) : is_overdue(all.val[i], now)}),
                         invoice_count |-> Cardinality(of(c))]]])

get_invoice_summary ==
    LET all == invoice_find_all
        ids == DOMAIN all.val
        amounts == TotalAmounts(all.val)
        paid == {i \in ids : all.val[i].status = InvoiceStatus.PAID}
    IN  IF all.err # OK THEN all
        ELSE Ok([total_invoices |-> Cardinality(ids),
                 paid_invoices |-> Cardinality(paid),
                 overdue_invoices |->
                    Cardinality({i \in ids : is_overdue(all.val[i], now)}),
                 total_revenue |-> SumOver(amounts, paid),
                 outstanding_amount |->
                    SumOver(amounts, {i \in ids : Unpaid(all.val[i])})])

\* a reporting operation that writes the status overdue to the invoices it
\* finds overdue
Report_storing_overdue(op, res) ==
    /\ report' = [op |-> op, err |-> res.err, val |-> res.val]
    /\ invoices' = [i \in DOMAIN invoices |->
                        IF i \in find_overdue(now)
                        THEN [invoices[i] EXCEPT !.status = "overdue"]
                        ELSE invoices[i]]
    /\ UNCHANGED <<clients, projects, invoice_items, payments, next_id, now, last,
                   obj, obj_last>>

\* a reporting operation: its result is returned, nothing is written
Report(op, res) ==
    /\ report' = [op |-> op, err |-> res.err, val |-> res.val]
    /\ UNCHANGED <<store, now, last, obj, obj_last>>

GetMonthlyReport(month) == Report("get_monthly_report", get_monthly_report(month))

GetClientRevenueReport ==
    Report("get_client_revenue_report", get_client_revenue_report)

GetOutstandingPaymentsReport ==
    Report("get_outstanding_payments_report", get_outstanding_payments_report)

GetInvoiceSummary == Report("get_invoice_summary", get_invoice_summary)

\* cli/report_menu.py, _outstanding_invoices: the bucket of an invoice that
\* is days_overdue days past its due date
aging_bucket(days_overdue) ==
    IF days_overdue <= 0 THEN "Current (Not Yet Due)"
    ELSE IF days_overdue <= 30 THEN "1-30 Days Overdue"
    ELSE IF days_overdue <= 60 THEN "31-60 Days Overdue"
    ELSE "60+ Days Overdue"

\* self.report_service.get_outstanding_invoices(): ReportService defines no
\* method of that name
get_outstanding_invoices == Raise("AttributeError")

\* _outstanding_invoices: the invoices the service returns are put into the
\* buckets; an exception is caught and printed
outstanding_invoices ==
    LET outstanding == get_outstanding_invoices
    IN  IF outstanding.err # OK THEN outstanding
        ELSE Ok([i \in DOMAIN outstanding.val |->
                    aging_bucket(date_today(now) - outstanding.val[i].due_date)])

OutstandingInvoices == Report("_outstanding_invoices", outstanding_invoices)

----------------------------------------------------------------------------
(* models/payment.py *)

\* the fields the Payment dataclass declares (with those of BaseModel)
PaymentFields ==
    {"id", "created_at", "updated_at", "invoice_id", "client_id", "amount",
     "payment_date", "payment_method", "status", "reference_number", "notes",
     "transaction_fee", "net_amount"}

PaymentDefaults ==
    [id |-> NoNumber, invoice_id |-> 0, client_id |-> 0, amount |-> 0,
     transaction_fee |-> 0, net_amount |-> 0]

calculate_net_amount(payment) ==
    [payment EXCEPT !.net_amount = payment.amount - payment.transaction_fee]

\* Payment(**kw): the dataclass constructor followed by __post_init__
Payment(kw) ==
    IF ~(DOMAIN kw \subseteq PaymentFields) THEN Raise("TypeError")
    ELSE LET f == kw @@ PaymentDefaults
         IN  IF f.invoice_id <= 0 THEN Raise("ValidationError")
             ELSE IF f.client_id <= 0 THEN Raise("ValidationError")
             ELSE IF f.amount <= 0 THEN Raise("ValidationError")
             ELSE Ok(calculate_net_amount(f))

set_transaction_fee(payment, fee) ==
    IF fee < 0 THEN Raise("ValidationError")
    ELSE IF fee > payment.amount THEN Raise("ValidationError")
    ELSE Ok(calculate_net_amount([payment EXCEPT !.transaction_fee = fee]))

mark_as_completed(payment) == [payment EXCEPT !.status = "completed"]

cancel_payment(payment) ==
    IF payment.status = "completed" THEN Raise("ValidationError")
    ELSE Ok([payment EXCEPT !.status = "cancelled"])

Payment_from_dict(data) ==
    Payment([id |-> Get(data, "id", NoNumber),
             invoice_id |-> Get(data, "invoice_id", 0),
             client_id |-> Get(data, "client_id", 0),
             amount |-> Get(data, "amount", 0),
             transaction_fee |-> Get(data, "transaction_fee", 0),
             net_amount |-> Get(data, "net_amount", 0)])

----------------------------------------------------------------------------
(* repositories/payment_repository.py *)

RECURSIVE SumPaid(_, _, _)
SumPaid(table, ids, invoice_id) ==
    IF ids = {} THEN 0
    ELSE LET i == CHOOSE j \in ids : TRUE
         IN  (IF table[i].invoice_id = invoice_id THEN table[i].amount ELSE 0)
             + SumPaid(table, ids \ {i}, invoice_id)

\* SELECT SUM(amount) FROM payments WHERE invoice_id = ?  (or 0.0)
get_total_paid_for_invoice(table, invoice_id) ==
    SumPaid(table, DOMAIN table, invoice_id)

payment_find_by_id(id) ==
    IF id \notin DOMAIN payments THEN Ok(NoneVal)
    ELSE Payment_from_dict([id |-> id] @@ payments[id])

\* SELECT ... WHERE transaction_id = ?  (a NULL never compares equal)
find_by_transaction_id(transaction_id) ==
    LET hit == {i \in DOMAIN payments :
                    /\ transaction_id # NoneStr
                    /\ payments[i].transaction_id = transaction_id}
    IN  IF hit = {} THEN Ok(NoneVal)
        ELSE LET i == CHOOSE j \in hit : TRUE
             IN  Payment_from_dict([id |-> i] @@ payments[i])

Remove(table, id) == [i \in DOMAIN table \ {id} |-> table[i]]

----------------------------------------------------------------------------
(* services/payment_service.py *)

\* the outcome of a payment method: the exception (or ok) and the tables
\* payments and invoices as the method leaves them
Outcome(err, pays, invs) == [err |-> err, payments |-> pays, invoices |-> invs]

Failed(err) == Outcome(err, payments, invoices)

\* InvoiceStatus.<name>: the value of the member, or AttributeError
Member(name) ==
    IF name \in DOMAIN InvoiceStatus THEN Ok(InvoiceStatus[name])
    ELSE Raise("AttributeError")

\* record_payment going on without testing that the invoice was found
record_payment_no_lookup_check(invoice_id, amount, transaction_id) ==
    LET invoice == invoice_find_by_id(invoice_id)
    IN  IF invoice.err # OK THEN Failed(invoice.err)
        ELSE IF invoice.val = NoneVal THEN Failed("AttributeError")
        ELSE IF invoice.val.status = InvoiceStatus.CANCELLED THEN Failed("ValidationError")
        ELSE IF amount <= 0 THEN Failed("ValidationError")
        ELSE Failed("ValidationError")

\* record_payment without the comparison of the amount with the remaining
\* balance, storing the row it is given
record_payment_no_balance_check(invoice_id, amount, transaction_id) ==
    LET invoice == invoice_find_by_id(invoice_id)
        total_paid == get_total_paid_for_invoice(payments, invoice_id)
        stored == Insert(payments, next_id.payments,
                         [invoice_id |-> invoice_id, amount |-> amount,
                          transaction_id |-> NoneStr])
    IN  IF invoice.err # OK THEN Failed(invoice.err)
        ELSE IF invoice.val = NoneVal THEN Failed("InvoiceNotFoundError")
        ELSE IF invoice.val.status = InvoiceStatus.CANCELLED THEN Failed("ValidationError")
        ELSE IF amount <= 0 THEN Failed("ValidationError")
        ELSE IF total_paid + amount >= invoice.val.total_amount
             THEN Outcome(OK, stored,
                          update_status(invoices, invoice_id, InvoiceStatus.PAID))
        ELSE Outcome(OK, stored, invoices)

record_payment(invoice_id, amount, transaction_id) ==
    LET invoice == invoice_find_by_id(invoice_id)
        total_paid == get_total_paid_for_invoice(payments, invoice_id)
        remaining_amount == invoice.val.total_amount - total_paid
        existing_payment == find_by_transaction_id(transaction_id)
        payment == Payment([invoice_id |-> invoice_id, amount |-> amount,
                            payment_date |-> now, payment_method |-> NoneVal,
                            transaction_id |-> transaction_id, notes |-> NoneVal])
        stored == Insert(payments, next_id.payments,
                         [invoice_id |-> invoice_id, amount |-> amount,
                          transaction_id |-> IF TruthyStr(transaction_id)
                                             THEN StripTxn(transaction_id)
                                             ELSE NoneStr])
        new_total_paid == total_paid + amount
        partially == Member("PARTIALLY_PAID")
    IN  IF invoice.err # OK THEN Failed(invoice.err)
        ELSE IF invoice.val = NoneVal THEN Failed("InvoiceNotFoundError")
        ELSE IF invoice.val.status = InvoiceStatus.CANCELLED THEN Failed("ValidationError")
        ELSE IF amount <= 0 THEN Failed("ValidationError")
        ELSE IF amount > remaining_amount THEN Failed("ValidationError")
        ELSE IF TruthyStr(transaction_id) /\ existing_payment.err # OK
             THEN Failed(existing_payment.err)
        ELSE IF TruthyStr(transaction_id) /\ existing_payment.val # NoneVal
             THEN Failed("ValidationError")
        ELSE IF payment.err # OK THEN Failed(payment.err)
        ELSE IF new_total_paid >= invoice.val.total_amount
             THEN Outcome(OK, stored,
                          update_status(invoices, invoice_id, InvoiceStatus.PAID))
        ELSE IF invoice.val.status = InvoiceStatus.DRAFT
             THEN IF partially.err # OK THEN Outcome(partially.err, stored, invoices)
                  ELSE Outcome(OK, stored,
                               update_status(invoices, invoice_id, partially.val))
        ELSE Outcome(OK, stored, invoices)

update_invoice_payment_status(pays, invoice_id) ==
    LET invoice == invoice_find_by_id(invoice_id)
        total_paid == get_total_paid_for_invoice(pays, invoice_id)
        partially == Member("PARTIALLY_PAID")
        new_status ==
            IF total_paid = 0
            THEN IF partially.err # OK THEN partially
                 ELSE IF invoice.val.status = partially.val
                      THEN Ok(InvoiceStatus.SENT) ELSE Ok(invoice.val.status)
            ELSE IF total_paid >= invoice.val.total_amount THEN Ok(InvoiceStatus.PAID)
            ELSE partially
    IN  IF invoice.err # OK THEN Outcome(invoice.err, pays, invoices)
        ELSE IF invoice.val = NoneVal THEN Outcome("AttributeError", pays, invoices)
        ELSE IF new_status.err # OK THEN Outcome(new_status.err, pays, invoices)
        ELSE IF new_status.val # invoice.val.status
             THEN Outcome(OK, pays, update_status(invoices, invoice_id, new_status.val))
        ELSE Outcome(OK, pays, invoices)

update_payment(payment_id, amount, transaction_id) ==
    LET payment == payment_find_by_id(payment_id)
        original_amount == payment.val.amount
        invoice == invoice_find_by_id(payment.val.invoice_id)
        total_paid == get_total_paid_for_invoice(payments, payment.val.invoice_id)
        new_total == total_paid - original_amount + amount
        existing == find_by_transaction_id(StripTxn(transaction_id))
        row == [payments[payment_id] EXCEPT
                    !.amount = IF amount # NoNumber THEN amount ELSE @,
                    !.transaction_id = IF TruthyStr(transaction_id)
                                       THEN StripTxn(transaction_id) ELSE NoneStr]
        updated == [i \in DOMAIN payments |->
                        IF i = payment_id THEN row ELSE payments[i]]
    IN  IF payment.err # OK THEN Failed(payment.err)
        ELSE IF payment.val = NoneVal THEN Failed("PaymentNotFoundError")
        ELSE IF amount # NoNumber /\ amount <= 0 THEN Failed("ValidationError")
        ELSE IF amount # NoNumber /\ invoice.err # OK THEN Failed(invoice.err)
        ELSE IF amount # NoNumber /\ invoice.val = NoneVal THEN Failed("AttributeError")
        ELSE IF amount # NoNumber /\ new_total > invoice.val.total_amount
             THEN Failed("ValidationError")
        ELSE IF transaction_id # NoneStr /\ existing.err # OK THEN Failed(existing.err)
        ELSE IF transaction_id # NoneStr /\ existing.val # NoneVal
                /\ existing.val.id # payment_id
             THEN Failed("ValidationError")
        \* PaymentRepository.update reads payment.transaction_id, an attribute
        \* the object has only once line 106 has assigned it
        ELSE IF transaction_id = NoneStr THEN Failed("AttributeError")
        ELSE update_invoice_payment_status(updated, payment.val.invoice_id)

delete_payment(payment_id) ==
    LET payment == payment_find_by_id(payment_id)
    IN  IF payment.err # OK THEN Failed(payment.err)
        ELSE IF payment.val = NoneVal THEN Failed("PaymentNotFoundError")
        ELSE update_invoice_payment_status(Remove(payments, payment_id),
                                           payment.val.invoice_id)

RecordPayment(invoice_id, amount, transaction_id) ==
    /\ next_id.payments <= MaxPayments
    /\ LET res == record_payment(invoice_id, amount, transaction_id)
       IN  /\ last' = Call("record_payment", res.err, invoice_id, amount)
           /\ payments' = res.payments
           /\ invoices' = res.invoices
           /\ next_id' = IF res.payments # payments
                         THEN [next_id EXCEPT !.payments = @ + 1] ELSE next_id
    /\ UNCHANGED <<clients, projects, invoice_items, now>>
    /\ ModelUnchanged

UpdatePayment(payment_id, amount, transaction_id) ==
    /\ LET res == update_payment(payment_id, amount, transaction_id)
       IN  /\ last' = Call("update_payment", res.err, payment_id, amount)
           /\ payments' = res.payments
           /\ invoices' = res.invoices
    /\ UNCHANGED <<clients, projects, invoice_items, next_id, now>>
    /\ ModelUnchanged

DeletePayment(payment_id) ==
    /\ LET res == delete_payment(payment_id)
       IN  /\ last' = Call("delete_payment", res.err, payment_id, 0)
           /\ payments' = res.payments
           /\ invoices' = res.invoices
    /\ UNCHANGED <<clients, projects, invoice_items, next_id, now>>
    /\ ModelUnchanged

----------------------------------------------------------------------------
(* the clock *)

Tick ==
    /\ now < MaxClock
    /\ now' = now + 1
    /\ UNCHANGED <<store, last>>
    /\ ModelUnchanged

----------------------------------------------------------------------------
Init ==
    /\ clients = <<>>
    /\ projects = <<>>
    /\ invoices = <<>>
    /\ invoice_items = <<>>
    /\ payments = <<>>
    /\ next_id = [clients |-> 1, projects |-> 1, payments |-> 1]
    /\ now = 0
    /\ last = [op |-> "init", err |-> OK, id |-> 0, amount |-> 0]
    /\ obj = NoneVal
    /\ obj_last = [op |-> "none", err |-> OK]
    /\ report = NoneVal

----------------------------------------------------------------------------
(* The Invoice object on its own: the methods of models/invoice.py applied  *)
(* to one object in memory.                                                *)

ItemInputs == {InvoiceItem("Design", q, r) : q \in {1, 2}, r \in {0, 100}}

NewFields(client_id, items, subtotal) ==
    [id |-> NoNumber, invoice_number |-> <<>>, client_id |-> client_id,
     project_id |-> NoNumber, items |-> items, subtotal |-> subtotal,
     tax_amount |-> 0, total_amount |-> 0, status |-> InvoiceStatus.DRAFT]

ObjCall(op, err, twice) == [op |-> op, err |-> err, twice |-> twice]

\* Invoice(client_id=..., items=[...], subtotal=...)
ObjNew(client_id, items, subtotal) ==
    /\ LET res == Invoice(NewFields(client_id, items, subtotal), 0)
       IN  /\ obj_last' = ObjCall("new", res.err, FALSE)
           /\ obj' = IF res.err = OK THEN res.val ELSE obj
    /\ UNCHANGED <<store, now, last, report>>

\* Invoice.from_dict(row), the row carrying the totals it was stored with
ObjFromDict(subtotal, status) ==
    /\ LET res == Invoice_from_dict(
                    [id |-> 1, invoice_number |-> <<"INV", 0>>, client_id |-> 1,
                     project_id |-> NoNumber, subtotal |-> subtotal,
                     tax_amount |-> tax_rate(subtotal),
                     total_amount |-> subtotal + tax_rate(subtotal),
                     status |-> status], 0)
       IN  /\ obj_last' = ObjCall("from_dict", res.err, FALSE)
           /\ obj' = IF res.err = OK THEN res.val ELSE obj
    /\ UNCHANGED <<store, now, last, report>>

\* invoice.items = [...], as InvoiceRepository._row_to_model assigns them
ObjSetItems(items) ==
    /\ obj # NoneVal
    /\ obj' = [obj EXCEPT !.items = items]
    /\ obj_last' = ObjCall("set_items", OK, FALSE)
    /\ UNCHANGED <<store, now, last, report>>

ObjAddItem(description, quantity, rate) ==
    /\ obj # NoneVal
    /\ Len(obj.items) < MaxItems
    /\ LET res == add_item(obj, description, quantity, rate)
       IN  /\ obj_last' = ObjCall("add_item", res.err, FALSE)
           /\ obj' = IF res.err = OK THEN res.val ELSE obj
    /\ UNCHANGED <<store, now, last, report>>

ObjCalculateTotals ==
    /\ obj # NoneVal
    /\ obj' = calculate_totals(obj)
    /\ obj_last' = ObjCall("calculate_totals", OK, obj_last.op = "calculate_totals")
    /\ UNCHANGED <<store, now, last, report>>

ObjMarkAsPaid ==
    /\ obj # NoneVal
    /\ obj' = mark_as_paid(obj)
    /\ obj_last' = ObjCall("mark_as_paid", OK, FALSE)
    /\ UNCHANGED <<store, now, last, report>>

----------------------------------------------------------------------------
(* The Payment object on its own: the constructor and set_transaction_fee *)
(* of models/payment.py applied to one object in memory.                  *)

\* Payment(invoice_id=..., client_id=1, amount=..., transaction_fee=...)
PaymentNew(invoice_id, amount, fee) ==
    /\ LET res == Payment([invoice_id |-> invoice_id, client_id |-> 1,
                           amount |-> amount, transaction_fee |-> fee,
                           status |-> "pending"])
       IN  /\ obj_last' = ObjCall("Payment", res.err, FALSE)
           /\ obj' = IF res.err = OK THEN res.val ELSE obj
    /\ UNCHANGED <<store, now, last, report>>

PaymentSetTransactionFee(fee) ==
    /\ obj # NoneVal
    /\ LET res == set_transaction_fee(obj, fee)
       IN  /\ obj_last' = ObjCall("set_transaction_fee", res.err, FALSE)
           /\ obj' = IF res.err = OK THEN res.val ELSE obj
    /\ UNCHANGED <<store, now, last, report>>

PaymentMarkAsCompleted ==
    /\ obj # NoneVal
    /\ obj' = mark_as_completed(obj)
    /\ obj_last' = ObjCall("mark_as_completed", OK, FALSE)
    /\ UNCHANGED <<store, now, last, report>>

PaymentCancel ==
    /\ obj # NoneVal
    /\ LET res == cancel_payment(obj)
       IN  /\ obj_last' = ObjCall("cancel_payment", res.err, FALSE)
           /\ obj' = IF res.err = OK THEN res.val ELSE obj
    /\ UNCHANGED <<store, now, last, report>>

----------------------------------------------------------------------------
(* Specifications *)

ClientIds == 1..(MaxClients + 1)
ProjectIds == 1..(MaxProjects + 1)
InvoiceIds == 1..(MaxInvoices + 1)
PaymentIds == 1..MaxPayments

\* create_project(name, hourly_rate, fixed_rate): one rate, both, none, and
\* rates and names that are not valid
ProjectInputs ==
    UNION {{<<"Site", r, NoNumber>>, <<"Site", NoNumber, r>>, <<"Site", r, r>>,
            <<"Site", -r, NoNumber>>, <<"Site", NoNumber, -r>>} : r \in Rates}
    \cup {<<"Site", NoNumber, NoNumber>>, <<"Site", 0, NoNumber>>,
           <<" ", NoNumber, 0>>}

\* add_invoice_item(description, quantity, rate)
ItemArgs ==
    {<<"Design", 1, 100>>, <<"Design", 2, 0>>, <<" ", 1, 100>>, <<"", 1, 100>>,
     <<"Design", 0, 100>>, <<"Design", 1, -50>>}

\* create_invoice(due_days=...): due at once, and the default
DueDays == {0, DefaultDueDays}

\* the items of a two-line invoice: ten units at 100, five at 200
ExampleItems == {<<"Design", 10, 100>>, <<"Dev", 5, 200>>}

\* the amounts paid: nothing, a part of an invoice, all of it, one unit more
PaymentAmounts ==
    {0, 50} \cup UNION {{r + tax_rate(r), r + tax_rate(r) + 1} : r \in Rates}

Next ==
    \/ \E n \in {" ", "Asha"}, e \in Emails : CreateClient(n, e)
    \/ \E c \in ClientIds, a \in ProjectInputs : CreateProject(c, a[1], a[2], a[3])
    \/ \E p \in ProjectIds, h \in {0, 1} : AddHoursToProject(p, h)
    \/ \E c \in ClientIds, p \in {NoNumber} \cup ProjectIds, d \in DueDays :
            CreateInvoice(c, p, d)
    \/ \E i \in InvoiceIds, a \in ItemArgs : AddInvoiceItem(i, a[1], a[2], a[3])
    \/ \E i \in InvoiceIds : MarkInvoicePaid(i)
    \/ \E i \in InvoiceIds : SendInvoice(i)
    \/ \E i \in InvoiceIds, a \in PaymentAmounts, t \in TransactionIds :
            RecordPayment(i, a, t)
    \/ \E p \in PaymentIds, a \in {NoNumber, 50}, t \in TransactionIds :
            UpdatePayment(p, a, t)
    \/ \E p \in PaymentIds : DeletePayment(p)
    \/ Tick

Spec == Init /\ [][Next]_vars

\* InvoiceRepository.create called with Invoice(client_id=1, items=[...])
RepoCreate(items) ==
    /\ Len(invoices) < MaxInvoices
    /\ LET inv == Invoice(NewFields(1, items, 0), now).val
           res == invoice_repository_create(inv)
           closed == connection_close(res.committed, <<invoices, invoice_items>>,
                                      res.pending)
       IN  /\ invoices' = closed[1]
           /\ invoice_items' = closed[2]
           /\ last' = Call("InvoiceRepository.create", res.err, Len(invoices) + 1, 0)
    /\ UNCHANGED <<clients, projects, payments, next_id, now>>
    /\ ModelUnchanged

\* the lists of items of an invoice handed to the repository: an item with no
\* description cannot be stored
RepoItems ==
    UNION {[1..n -> {InvoiceItem("Design", 1, 100), InvoiceItem(NoneStr, 1, 100)}] :
              n \in 0..MaxItems}

\* the invoice and payment services over a store whose invoice statuses are
\* written through InvoiceRepository.update_status
RepoNext ==
    \/ \E n \in {" ", "Asha"}, e \in Emails : CreateClient(n, e)
    \/ \E c \in ClientIds, a \in ProjectInputs : CreateProject(c, a[1], a[2], a[3])
    \/ \E c \in ClientIds, p \in {NoNumber} \cup ProjectIds :
            CreateInvoice(c, p, DefaultDueDays)
    \/ \E i \in InvoiceIds, st \in InvoiceStatusValues : RepoUpdateStatus(i, st)
    \/ \E i \in InvoiceIds, a \in PaymentAmounts, t \in TransactionIds :
            RecordPayment(i, a, t)
    \/ \E i \in InvoiceIds : SendInvoice(i)
    \/ \E i \in InvoiceIds : MarkInvoicePaid(i)
    \/ \E i \in InvoiceIds : AddInvoiceItem(i, "Design", 1, 100)
    \/ \E p \in PaymentIds : UpdatePayment(p, 50, NoneStr)
    \/ \E p \in PaymentIds : DeletePayment(p)

\* the invoice repository on its own
RepoCreateNext ==
    \/ \E items \in RepoItems : RepoCreate(items)
    \/ \E i \in InvoiceIds, st \in InvoiceStatusValues : RepoUpdateStatus(i, st)
    \/ Tick

RepoCreateSpec == Init /\ [][RepoCreateNext]_vars

RepoSpec == Init /\ [][RepoNext]_vars

\* create_client and update_client: a second address, an address without "@",
\* an empty one
ClientEmails == Emails \cup {"b@x.io", "nope", ""}

ClientNames == {" ", "Asha"}

\* the client service
ClientNext ==
    \/ \E n \in ClientNames, e \in ClientEmails : CreateClient(n, e)
    \/ \E c \in ClientIds, n \in {NoneStr} \cup ClientNames,
          e \in {NoneStr} \cup ClientEmails : UpdateClient(c, n, e)

ClientSpec == Init /\ [][ClientNext]_vars

\* create_project and update_project with a rate of zero beside a rate, a
\* second rate, and a blank name
ProjectRateInputs ==
    ProjectInputs \cup {<<"Site", 0, 100>>, <<"Site", 100, 0>>}

ProjectUpdates ==
    {<<NoneStr, 50, NoNumber>>, <<NoneStr, NoNumber, 70>>, <<NoneStr, 50, 70>>,
     <<NoneStr, 0, NoNumber>>, <<NoneStr, NoNumber, -70>>, <<" ", NoNumber, NoNumber>>,
     <<"Shop", NoNumber, NoNumber>>}

\* add_hours_to_project(hours=...): hours taken back, none, one
HoursInputs == {-1, 0, 1}

ProjectStatusValues == {"active", "completed", "on_hold", "cancelled"}

\* the project service over the clients
ProjectNext ==
    \/ \E n \in {" ", "Asha"}, e \in Emails : CreateClient(n, e)
    \/ \E c \in ClientIds, a \in ProjectRateInputs : CreateProject(c, a[1], a[2], a[3])
    \/ \E p \in ProjectIds, a \in ProjectUpdates : UpdateProject(p, a[1], a[2], a[3])
    \/ \E p \in ProjectIds, h \in HoursInputs : AddHoursToProject(p, h)
    \/ \E p \in ProjectIds, st \in ProjectStatusValues : UpdateProjectStatus(p, st)
    \/ \E p \in ProjectIds : CompleteProject(p)
    \/ \E p \in ProjectIds : PauseProject(p)
    \/ \E p \in ProjectIds : ResumeProject(p)

ProjectSpec == Init /\ [][ProjectNext]_vars

\* create_invoice(due_days=...): due 45 days ago, and due at once
ReportDueDays == {-45, 0}

\* the reporting operations over the clients and invoices the services store
ReportNext ==
    \/ \E e \in {"a@x.io", "b@x.io"} : CreateClient("Asha", e)
    \/ \E c \in DOMAIN clients : DeleteClient(c)
    \/ \E c \in DOMAIN clients : CreateProject(c, "Site", NoNumber, 100)
    \/ \E c \in DOMAIN clients, p \in {NoNumber} \cup DOMAIN projects,
          d \in ReportDueDays : CreateInvoice(c, p, d)
    \/ \E i \in DOMAIN invoices : MarkInvoicePaid(i)
    \/ \E m \in {0, 1} : GetMonthlyReport(m)
    \/ GetClientRevenueReport
    \/ GetOutstandingPaymentsReport
    \/ GetInvoiceSummary
    \/ OutstandingInvoices
    \/ Tick

ReportSpec == Init /\ [][ReportNext]_vars

\* amounts of a payment, and fees below zero, within the amount and above it
PaymentObjAmounts == {0, 50, 100, 150}

Fees == {-10, 0, 20, 50, 100, 200}

PaymentObjNext ==
    \/ \E i \in {0, 1}, a \in PaymentObjAmounts, f \in Fees : PaymentNew(i, a, f)
    \/ \E f \in Fees : PaymentSetTransactionFee(f)
    \/ PaymentMarkAsCompleted
    \/ PaymentCancel

PaymentObjSpec == Init /\ [][PaymentObjNext]_vars

ObjNext ==
    \/ \E c \in {0, 1}, items \in {<<>>} \cup {<<it>> : it \in ItemInputs},
          s \in {0, 100} : ObjNew(c, items, s)
    \/ \E s \in {0, 100, 200}, st \in InvoiceStatusValues \cup {"unpaid"} :
            ObjFromDict(s, st)
    \/ \E n \in 0..MaxItems : \E items \in [1..n -> ItemInputs] : ObjSetItems(items)
    \/ \E a \in ItemArgs \cup ExampleItems : ObjAddItem(a[1], a[2], a[3])
    \/ ObjCalculateTotals
    \/ ObjMarkAsPaid

ObjSpec == Init /\ [][ObjNext]_vars

----------------------------------------------------------------------------
(* Properties *)

PaidFor(i) == get_total_paid_for_invoice(payments, i)

PaymentsOf(i) == {p \in DOMAIN payments : payments[p].invoice_id = i}

ItemsOf(i) == load_invoice_items(invoice_items, i)

PaymentOps == {"record_payment", "update_payment", "delete_payment"}

\* the step is a call of the service method op (every call leaves the clock)
Called(op) == last'.op = op /\ now' = now

C7_FullPaymentThenClosed ==
    [][\A i \in DOMAIN invoices :
          /\ (/\ Called("record_payment")
              /\ last'.id = i
              /\ ItemsOf(i) # <<>>
              /\ invoices[i].total_amount > 0
              /\ PaymentsOf(i) = {}
              /\ last'.amount = invoices[i].total_amount)
             => (/\ last'.err = OK
                 /\ invoices'[i].status = InvoiceStatus.PAID)
          /\ (/\ Called("record_payment")
              /\ last'.id = i
              /\ invoices[i].total_amount > 0
              /\ PaidFor(i) = invoices[i].total_amount
              /\ last'.amount > 0)
             => (/\ last'.err = "ValidationError"
                 /\ payments' = payments)]_vars

\* the arguments add_item accepts
ValidItemArgs == {a \in ItemArgs : Strip(a[1]) # "" /\ a[2] > 0 /\ a[3] >= 0}

\* C12: add_invoice_item on an invoice that is not draft fails with
\* InvalidOperation and leaves the invoice and its items as they were; on a
\* draft invoice with valid input it succeeds and the stored invoice gains
\* the item
C12_ItemsOnlyOnDraft ==
    [][\A i \in DOMAIN invoices, a \in ItemArgs :
          AddInvoiceItem(i, a[1], a[2], a[3])
          => /\ invoices[i].status # InvoiceStatus.DRAFT
                => /\ last'.err = "InvalidOperation"
                   /\ invoices' = invoices
                   /\ invoice_items' = invoice_items
             /\ (invoices[i].status = InvoiceStatus.DRAFT /\ a \in ValidItemArgs)
                => /\ last'.err = OK
                   /\ load_invoice_items(invoice_items', i)
                        = Append(ItemsOf(i), InvoiceItem(a[1], a[2], a[3]))]_vars

\* C13: send_invoice succeeds exactly when the stored status is draft or
\* sent, and the stored status is then sent; for every other status it fails
\* and the stored status stays
C13_SendOnlyDraftOrSent ==
    [][\A i \in DOMAIN invoices :
          (Called("send_invoice") /\ last'.id = i)
          => IF invoices[i].status \in {InvoiceStatus.DRAFT, InvoiceStatus.SENT}
             THEN last'.err = OK /\ invoices'[i].status = InvoiceStatus.SENT
             ELSE last'.err # OK /\ invoices'[i].status = invoices[i].status]_vars

\* send_invoice was refused on a paid invoice
C13_Witness ==
    /\ last.op = "send_invoice"
    /\ last.id \in DOMAIN invoices
    /\ invoices[last.id].status = InvoiceStatus.PAID
    /\ last.err = "ValidationError"

\* record_payment on an id no invoice is stored under raises the exception
\* the repository names InvoiceNotFoundError, and nothing is stored
MissingInvoiceRefused ==
    \A i \in InvoiceIds \ DOMAIN invoices :
        (Called("record_payment") /\ last'.id = i)
        => /\ last'.err = "InvoiceNotFoundError"
           /\ payments' = payments
           /\ invoices' = invoices

\* record_payment on a cancelled invoice raises err, and nothing is stored
CancelledRefusedWith(err) ==
    \A i \in DOMAIN invoices :
        (/\ Called("record_payment")
         /\ last'.id = i
         /\ invoices[i].status = InvoiceStatus.CANCELLED)
        => /\ last'.err = err
           /\ payments' = payments
           /\ invoices' = invoices

C16_OverdueIsDerived ==
    \A i \in DOMAIN invoices :
        LET past_due == /\ invoices[i].due_date < now
                        /\ invoices[i].status \notin {"paid", "cancelled"}
        IN  /\ invoices[i].status # "overdue"
            /\ is_overdue(invoice_find_by_id(i).val, now) <=> past_due
            /\ i \in find_overdue(now) <=> past_due

\* an invoice that was sent is past its due date, and the query returns it
C16_Witness ==
    \E j \in DOMAIN invoices :
        /\ invoices[j].due_date < now
        /\ invoices[j].status = "sent"
        /\ j \in find_overdue(now)
        /\ is_overdue(invoice_find_by_id(j).val, now)

\* C17: every stored project has exactly one of hourly_rate and fixed_rate
\* set, and the one that is set is greater than zero
C17_ExactlyOneRate ==
    \A p \in DOMAIN projects :
        LET h == projects[p].hourly_rate
            f == projects[p].fixed_rate
        IN  /\ (h # NoNumber) # (f # NoNumber)
            /\ h # NoNumber => h > 0
            /\ f # NoNumber => f > 0

\* C18: every stored client has a non-empty email that contains "@", and
\* update_client rejects an invalid name or email and leaves the stored client
C18_StoredEmailsValid ==
    \A c \in DOMAIN clients :
        /\ StripEmail(clients[c].email) # ""
        /\ HasAt(clients[c].email)

\* the email as the table stores it: trimmed and lower-cased
StoredAs(email) == Lower(StripEmail(email))

EmailHeldByOther(email, client_id) ==
    \E j \in DOMAIN clients : j # client_id /\ clients[j].email = StoredAs(email)

\* C19: no two stored clients have the same email, and a create_client or
\* update_client whose email, trimmed and lower-cased, is the stored email of
\* another client fails and changes no stored client
C19_EmailsUnique ==
    [][/\ \A i, j \in DOMAIN clients' :
              i # j => clients'[i].email # clients'[j].email
       /\ \A n \in ClientNames, e \in ClientEmails :
              CreateClient(n, e) /\ EmailHeldByOther(e, 0)
                  => last'.err # OK /\ clients' = clients
       /\ \A c \in ClientIds, n \in {NoneStr} \cup ClientNames, e \in ClientEmails :
              UpdateClient(c, n, e) /\ EmailHeldByOther(e, c)
                  => last'.err # OK /\ clients' = clients]_vars

\* two clients are stored and both load, and an update_client of the second
\* has been refused: the email it asked for is the first client's
C19_Witness ==
    /\ Len(clients) = 2
    /\ last.op = "update_client"
    /\ last.err = "ValidationError"
    /\ last.id = 2
    /\ client_find_by_id(2).err = OK
    /\ client_find_by_id(1).err = OK

\* C20: no two stored invoices share an invoice_number, also when
\* create_invoice is called twice within the same second
C20_InvoiceNumbersUnique ==
    \A i, j \in DOMAIN invoices :
        i # j => invoices[i].invoice_number # invoices[j].invoice_number

\* an invoice was stored in this second, and a second create_invoice in the
\* same second, which generated the same number, has been refused
C20_Witness ==
    /\ last.op = "create_invoice"
    /\ last.err = "DatabaseError"
    /\ InvoiceNumberTaken(generate_invoice_number(now))

\* C21: every Payment object, after construction and after any sequence of
\* set_transaction_fee calls, has 0 <= transaction_fee <= amount and
\* net_amount = amount - transaction_fee
C21_FeeWithinAmount ==
    obj # NoneVal =>
        /\ 0 <= obj.transaction_fee
        /\ obj.transaction_fee <= obj.amount
        /\ obj.net_amount = obj.amount - obj.transaction_fee

ReportOps ==
    {"get_monthly_report", "get_client_revenue_report",
     "get_outstanding_payments_report", "get_invoice_summary"}

\* C22: the reporting operations leave every stored client, project, invoice,
\* invoice item and payment unchanged
C22_ReportsReadOnly ==
    [][report' # NoneVal /\ report'.op \in ReportOps => store' = store]_vars

\* a report over a store that holds an invoice not yet paid has come back
C22_Witness ==
    /\ report # NoneVal
    /\ report.op = "get_outstanding_payments_report"
    /\ report.err = OK
    /\ report.val.total_unpaid_invoices >= 1
    /\ report.val.overdue_invoices_count >= 1

\* the bucket of an invoice that is d days past its due date
BucketOf(d) ==
    IF d <= 0 THEN "current"
    ELSE IF d <= 30 THEN "1-30"
    ELSE IF d <= 60 THEN "31-60"
    ELSE "60+"

BucketLabel ==
    [current |-> "Current (Not Yet Due)"] @@ ("1-30" :> "1-30 Days Overdue")
    @@ ("31-60" :> "31-60 Days Overdue") @@ ("60+" :> "60+ Days Overdue")

\* C23: the outstanding-aging report places every invoice that is not paid or
\* cancelled in exactly one bucket, by d = today - due_date: current if
\* d <= 0, 1-30, 31-60, and 60+ if d > 60
C23_AgingBuckets ==
    [][report' # NoneVal /\ report'.op = "_outstanding_invoices"
          => \A i \in DOMAIN invoices :
                invoices[i].status \notin {"paid", "cancelled"}
                    => /\ report'.err = OK
                       /\ i \in DOMAIN report'.val
                       /\ report'.val[i] = BucketLabel[BucketOf(now - invoices[i].due_date)]]_vars

\* an invoice that is not paid refers to a client that is not stored
OrphanUnpaid ==
    \E i \in DOMAIN invoices :
        /\ invoices[i].status \notin {"paid", "cancelled"}
        /\ invoices[i].client_id \notin DOMAIN clients

\* C24: when an unpaid invoice refers to a client that is no longer stored,
\* get_outstanding_payments_report completes without error and the breakdown
\* by client still accounts for that invoice: its entries count every unpaid
\* invoice and their total_amount values sum to total_outstanding
C24_OrphanStillCounted ==
    [][report' # NoneVal /\ report'.op = "get_outstanding_payments_report"
       /\ OrphanUnpaid
          => /\ report'.err = OK
             /\ LET breakdown == report'.val.client_breakdown
                IN  /\ SumOver([c \in DOMAIN breakdown |-> breakdown[c].invoice_count],
                               DOMAIN breakdown)
                           = report'.val.total_unpaid_invoices
                    /\ SumOver([c \in DOMAIN breakdown |-> breakdown[c].total_amount],
                               DOMAIN breakdown)
                           = report'.val.total_outstanding]_vars

\* C25: if InvoiceRepository.create fails while inserting the invoice row or
\* one of its item rows, neither the invoice row nor any of its item rows is
\* stored afterwards, and the caller gets the error
C25_CreateAllOrNothing ==
    [][\A items \in RepoItems :
          RepoCreate(items)
              => IF \/ InvoiceNumberTaken(generate_invoice_number(now))
                    \/ \E k \in DOMAIN items : items[k].description = NoneStr
                 THEN /\ last'.err = "DatabaseError"
                      /\ invoices' = invoices
                      /\ invoice_items' = invoice_items
                 ELSE /\ last'.err = OK
                      /\ Len(invoices') = Len(invoices) + 1
                      /\ Len(invoice_items') = Len(invoice_items) + Len(items)]_vars

\* create has failed on an item: the number it generated is not taken, and an
\* invoice stored before it is still there with its items
C25_Witness ==
    /\ last.op = "InvoiceRepository.create"
    /\ last.err = "DatabaseError"
    /\ ~InvoiceNumberTaken(generate_invoice_number(now))
    /\ Len(invoices) = 1
    /\ Len(invoice_items) = 2

\* the project is billed at a fixed rate
FixedRate(row) == row.fixed_rate # NoNumber /\ row.fixed_rate > 0

\* C26: the hours_worked of a stored project never decrease from one state to
\* the next, and add_hours_to_project with hours <= 0, on a fixed-rate
\* project or on a project that is not active fails and leaves hours_worked
C26_HoursNeverDecrease ==
    [][/\ \A p \in DOMAIN projects :
              /\ p \in DOMAIN projects'
              /\ projects'[p].hours_worked >= projects[p].hours_worked
       /\ \A p \in DOMAIN projects, h \in HoursInputs :
              /\ AddHoursToProject(p, h)
              /\ \/ h <= 0
                 \/ FixedRate(projects[p])
                 \/ projects[p].status # "active"
              => /\ last'.err # OK
                 /\ projects'[p].hours_worked = projects[p].hours_worked]_vars

\* hours were added to a project, it was paused, and more hours were refused
C26_Witness ==
    /\ last.op = "add_hours_to_project"
    /\ last.err = "ValidationError"
    /\ last.id \in DOMAIN projects
    /\ projects[last.id].hours_worked = 1
    /\ projects[last.id].status = "on_hold"
    /\ projects[last.id].name = "Site"

\* C30: pause_project succeeds only from active and yields on_hold,
\* resume_project succeeds only from on_hold and yields active,
\* complete_project succeeds from every status except completed and yields
\* completed; a rejected call leaves the stored status
C30_StatusTransitionsGuarded ==
    [][\A p \in DOMAIN projects :
          LET was == projects[p].status
              is == projects'[p].status
              ok == last'.err = OK
          IN  /\ PauseProject(p) =>
                    /\ ok <=> was = "active"
                    /\ is = IF ok THEN "on_hold" ELSE was
              /\ ResumeProject(p) =>
                    /\ ok <=> was = "on_hold"
                    /\ is = IF ok THEN "active" ELSE was
              /\ CompleteProject(p) =>
                    /\ ok <=> was # "completed"
                    /\ is = IF ok THEN "completed" ELSE was]_vars

\* C27: an invoice whose stored status is paid has stored payments that sum
\* to at least its total_amount
C27_PaidMeansPaidUp ==
    \A i \in DOMAIN invoices :
        invoices[i].status = "paid" => PaidFor(i) >= invoices[i].total_amount

\* C28: for every invoice stored with at least one item, the invoice that
\* find_by_id returns has the subtotal, tax_amount and total_amount that were
\* stored, and its subtotal is the sum of the amounts of its items
C28_LoadedTotalsAsStored ==
    \A i \in DOMAIN invoices :
        ItemsOf(i) # <<>> =>
            LET loaded == invoice_find_by_id(i)
            IN  /\ loaded.err = OK
                /\ loaded.val.subtotal = invoices[i].subtotal
                /\ loaded.val.tax_amount = invoices[i].tax_amount
                /\ loaded.val.total_amount = invoices[i].total_amount
                /\ loaded.val.subtotal = SumAmounts(loaded.val.items)

\* C29: once the stored status of an invoice is cancelled, no call of
\* send_invoice, mark_invoice_paid, add_invoice_item, record_payment,
\* update_payment or delete_payment changes it
C29_CancelledIsTerminal ==
    [][\A i \in DOMAIN invoices :
          /\ invoices[i].status = "cancelled"
          /\ last'.op \in {"send_invoice", "mark_invoice_paid", "add_invoice_item"}
                            \cup PaymentOps
          /\ now' = now
          => invoices'[i].status = "cancelled"]_vars

\* every call of a payment method ends in an exception
PaymentCallsFail == last.op \in PaymentOps => last.err # OK

\* no payment is ever stored
NoPaymentStored == payments = <<>>

RECURSIVE SumQuantityRate(_)
SumQuantityRate(items) ==
    IF items = <<>> THEN 0
    ELSE items[1].quantity * items[1].rate + SumQuantityRate(Tail(items))

TotalsOf(o) == <<o.subtotal, o.tax_amount, o.total_amount>>

\* C9: after construction and after every successful add_item, subtotal is
\* the sum of quantity * rate over the items, tax_amount is subtotal * tax
\* rate and total_amount is subtotal + tax_amount
C9_TotalsFollowItems ==
    (obj_last.op \in {"new", "from_dict", "add_item"} /\ obj_last.err = OK)
    => /\ obj.subtotal = SumQuantityRate(obj.items)
       /\ 100 * obj.tax_amount = TaxRatePct * obj.subtotal
       /\ obj.total_amount = obj.subtotal + obj.tax_amount

\* add_item succeeded on an object that already had an item with an amount
C9_Witness ==
    /\ obj_last.op = "add_item"
    /\ obj_last.err = OK
    /\ Len(obj.items) >= 2
    /\ obj.items[1].amount > 0
    /\ obj.total_amount > obj.items[1].amount

\* the object holds exactly the items (10, 100.00) and (5, 200.00), added in
\* this order, the second by the last call
TwoExampleItems ==
    /\ obj # NoneVal
    /\ obj_last.op = "add_item"
    /\ obj_last.err = OK
    /\ Len(obj.items) = 2
    /\ obj.items[1].quantity = 10 /\ obj.items[1].rate = 100
    /\ obj.items[2].quantity = 5 /\ obj.items[2].rate = 200

\* C11: with tax rate 0.18, an invoice to which (10, 100.00) and (5, 200.00)
\* are added in this order has subtotal 2000, tax_amount 360, total_amount 2360
C11_ExampleTotals ==
    TwoExampleItems => TotalsOf(obj) = <<2000, 360, 2360>>

\* both items have been added
C11_Witness == TwoExampleItems /\ obj.total_amount > obj.subtotal

\* C10: a second calculate_totals right after a first one, the items being
\* the same, leaves subtotal, tax_amount and total_amount as the first did
C10_CalculateTotalsIdempotent ==
    [][(/\ obj_last.op = "calculate_totals"
        /\ obj_last'.op = "calculate_totals"
        /\ obj'.items = obj.items)
       => TotalsOf(obj') = TotalsOf(obj)]_vars

\* calculate_totals ran twice in a row on an object with a positive total
C10_Witness ==
    /\ obj_last.op = "calculate_totals"
    /\ obj_last.twice
    /\ obj.items # <<>>
    /\ obj.total_amount > 0

====
